---- MODULE Spec2Model ----
(***************************************************************************)
(* localdocs: a directory ingester (parse.py) and a full-text search CLI   *)
(* (search_pkm.py) over one PostgreSQL table, extracted_files.             *)
(*                                                                         *)
(* The model follows the two scripts statement by statement at the level   *)
(* of the calls they make on the database connection.  The table holds     *)
(* the committed rows; a row written by a transaction that has not yet     *)
(* committed is held in pend until conn.commit() or conn.rollback().       *)
(* File names and extensions are sequences of one-character strings, so    *)
(* that os.path.splitext and str.lower are computed, not assumed.          *)
(***************************************************************************)
EXTENDS Integers, Sequences, FiniteSets, Bags, TLC

VARIABLES
    disk,       \* the scanned directory: file name -> what reading it yields
    now,        \* the database clock (CURRENT_TIMESTAMP)
    schema,     \* TRUE once CREATE TABLE IF NOT EXISTS has committed
    table,      \* committed rows of extracted_files, a bag of rows
    pend,       \* per process: the uncommitted row of its open transaction
    pc,         \* per ingestion process: position in parse.py
    conn,       \* per ingestion process: "none" | "open" | "closed"
    tx,         \* per ingestion process: "idle" | "intrans" | "aborted"
    todo,       \* per ingestion process: files os.walk has still to yield
    cur,        \* per ingestion process: the insert in flight
    counts,     \* per ingestion process: the four counters
    log,        \* per ingestion process: per-file messages of this run
    base,       \* per ingestion process: the table as the run found it
    exitcode,   \* per ingestion process: exit status of the last invocation
    runs,       \* invocations started so far
    edits,      \* edits made to the directory so far
    summary,    \* per ingestion process: the summary process_directory logged
    prev,       \* what the last invocation that ended left behind
    fts,        \* TRUE once the full-text setup script has committed
    spc,        \* search process: position in search_pkm.py
    sconn,      \* search process: "none" | "open" | "closed" | "dropped"
    stx,        \* search process: "idle" | "intrans" | "aborted"
    sargs,      \* search process: the parsed command line
    last,       \* the last call of search_documents and what it returned
    sout,       \* what the search process printed last
    asked       \* interactive queries read so far

ingestVars == <<disk, now, schema, table, pend, pc, conn, tx, todo, cur,
                counts, log, base, summary, exitcode, runs, edits, prev>>

searchVars == <<fts, spc, sconn, stx, sargs, last, sout, asked>>

vars == <<ingestVars, searchVars>>

-----------------------------------------------------------------------------
(* Bounds of the exploration *)

MaxRuns == 2
MaxEdits == 1

Procs == {"p1", "p2"}

-----------------------------------------------------------------------------
(* Python values *)

\* None is the empty option, Some(v) the option holding v.
None == <<>>
Some(v) == <<v>>

RECURSIVE Flatten(_)
\* "".join(chunks): the concatenation of a sequence of sequences.
Flatten(ss) == IF ss = <<>> THEN <<>> ELSE Head(ss) \o Flatten(Tail(ss))

Uppers == <<"A","B","C","D","E","F","G","H","I","J","K","L","M",
            "N","O","P","Q","R","S","T","U","V","W","X","Y","Z">>
Lowers == <<"a","b","c","d","e","f","g","h","i","j","k","l","m",
            "n","o","p","q","r","s","t","u","v","w","x","y","z">>

LowerChar(c) ==
    IF \E i \in 1..Len(Uppers) : Uppers[i] = c
    THEN Lowers[CHOOSE i \in 1..Len(Uppers) : Uppers[i] = c]
    ELSE c

\* str.lower()
lower(s) == [i \in 1..Len(s) |-> LowerChar(s[i])]

\* os.path.splitext(name)[1]: from the last dot on, unless only dots precede it.
splitext(name) ==
    LET dots == {i \in 1..Len(name) : name[i] = "."}
    IN  IF dots = {} THEN <<>>
        ELSE LET d == CHOOSE i \in dots : \A j \in dots : j <= i
             IN  IF \E j \in 1..(d - 1) : name[j] # "."
                 THEN SubSeq(name, d, Len(name))
                 ELSE <<>>

Root == <<"d","o","c","s">>

\* os.path.join(root, filename)
join(root, filename) == root \o <<"/">> \o filename

EXT_TXT == <<".","t","x","t">>
EXT_PDF == <<".","p","d","f">>
EXT_MD  == <<".","m","d">>

SUPPORTED_EXTENSIONS == {EXT_TXT, EXT_PDF, EXT_MD}

-----------------------------------------------------------------------------
(* The directory *)

F_A == <<"a",".","t","x","t">>
F_B == <<"b",".","P","D","F">>
F_C == <<"c",".","m","d">>
F_D == <<"d",".","t","x","t",".","b","a","k">>

FileNames == {F_A, F_B, F_C, F_D}

\* A file is what reading it yields: cond is how the read goes, body the
\* text it holds, page by page (one page for a text file).
File(cond, body) == [cond |-> cond, body |-> body]

InitialDisk ==
    (F_A :> File("utf8", << <<"hello", "world">> >>)) @@
    (F_B :> File("encrypted", << <<"secret">> >>)) @@
    (F_C :> File("latin1", << <<"hello", "md">> >>)) @@
    (F_D :> File("utf8", << <<"hello", "backup">> >>))

\* What an edit can leave in a file.
EditStates(f) ==
    IF f = F_A
    THEN {File("utf8", << <<"changed">> >>), File("unreadable", << >>)}
    ELSE IF f = F_B
    THEN {File("ok", << <<"hello">>, <<"pdf">> >>), File("blankpw", << >>)}
    ELSE {}

-----------------------------------------------------------------------------
(* Extractors *)

extract_text_from_txt(file) ==
    IF file.cond = "utf8" THEN Some(Flatten(file.body))
    ELSE IF file.cond = "unreadable" THEN None
    ELSE Some(Flatten(file.body))

extract_text_from_md(file) == extract_text_from_txt(file)

extract_text_from_pdf(file) ==
    IF file.cond = "encrypted" THEN None
    ELSE IF file.cond \in {"ok", "blankpw"} THEN Some(Flatten(file.body))
    ELSE None

\* The dispatch on the extension in process_directory.
Extract(file_ext, file) ==
    IF file_ext = EXT_TXT THEN extract_text_from_txt(file)
    ELSE IF file_ext = EXT_MD THEN extract_text_from_md(file)
    ELSE IF file_ext = EXT_PDF THEN extract_text_from_pdf(file)
    ELSE None

-----------------------------------------------------------------------------
(* The table extracted_files and a psycopg2 connection *)

Row(file_path, file_extension, content, processed_at) ==
    [file_path |-> file_path, file_extension |-> file_extension,
     content |-> content, processed_at |-> processed_at]

\* file_path TEXT UNIQUE: the rows of tbl that hold this path.
HasPath(tbl, file_path) == \E r \in BagToSet(tbl) : r.file_path = file_path

\* Variant: a plain INSERT on a table without the conflict clause.
InsertPlain(tbl, row) == [rowcount |-> 1, pend |-> Some(row)]

\* INSERT ... ON CONFLICT (file_path) DO NOTHING, as the statement sees the
\* committed table: the new row is left uncommitted, or nothing is written.
InsertOnConflictDoNothing(tbl, row) ==
    IF HasPath(tbl, row.file_path)
    THEN [rowcount |-> 0, pend |-> None]
    ELSE [rowcount |-> 1, pend |-> Some(row)]

\* Variant: an existence check that does not see uncommitted rows.
WaitsOnNothing(p, file_path) == FALSE

\* The unique index makes an insert wait for another transaction's
\* uncommitted row with the same key until that transaction ends.
WaitsOn(p, file_path) ==
    \E q \in Procs \ {p} : pend[q] # None /\ pend[q][1].file_path = file_path

\* conn.commit(): the transaction's row becomes visible.
Committed(tbl, pnd) ==
    IF pnd = None THEN tbl ELSE tbl (+) SetToBag({pnd[1]})

\* Variant: the except branch without conn.rollback().
rollback_skipped(c) == c

\* conn.rollback(): the open transaction, failed or not, is discarded.
rollback(c) == [tx |-> "idle", pend |-> None]

\* Variant: no extension filter.
IsSupportedAlways(file_ext) == TRUE

\* process_directory, line 151: file_ext in SUPPORTED_EXTENSIONS
IsSupported(file_ext) == file_ext \in SUPPORTED_EXTENSIONS

\* Variant: "if content:", which also rejects the empty string.
IsTruthy(content) == content # None /\ content[1] # <<>>

\* process_directory, line 161: content is not None
IsNotNone(content) == content # None

ZeroCounts == [processed |-> 0, skipped |-> 0, error |-> 0, duplicate |-> 0]

Bump(c, field) == [c EXCEPT ![field] = @ + 1]

\* What insert_file_data returns, from how the statement and the commit went.
InsertReturn(raised, rowcount) == (~raised) /\ rowcount > 0

\* Variant: the return value of insert_file_data is ignored.
CountInsertIgnoringReturn(c, returned) == Bump(c, "processed")

\* process_directory, lines 162-165: the counter a return value feeds.
CountInsert(c, returned) ==
    IF returned THEN Bump(c, "processed") ELSE Bump(c, "duplicate")

-----------------------------------------------------------------------------
(* parse.py *)

Init ==
    /\ disk = InitialDisk
    /\ now = 0
    /\ schema = FALSE
    /\ table = EmptyBag
    /\ pend = [p \in Procs |-> None]
    /\ pc = [p \in Procs |-> "idle"]
    /\ conn = [p \in Procs |-> "none"]
    /\ tx = [p \in Procs |-> "idle"]
    /\ todo = [p \in Procs |-> {}]
    /\ cur = [p \in Procs |-> None]
    /\ counts = [p \in Procs |-> ZeroCounts]
    /\ log = [p \in Procs |-> {}]
    /\ base = [p \in Procs |-> EmptyBag]
    /\ summary = [p \in Procs |-> None]
    /\ exitcode = [p \in Procs |-> 0]
    /\ runs = 0
    /\ edits = 0
    /\ prev = None
    /\ fts = FALSE
    /\ spc = "idle"
    /\ sconn = "none"
    /\ stx = "idle"
    /\ sargs = None
    /\ last = None
    /\ sout = "nothing"
    /\ asked = 0

\* What an invocation leaves behind when its process ends.
Ended(p) ==
    [disk |-> disk, after |-> table, summary |-> summary[p],
     dberror |-> \E e \in log[p] : e[1] = "insert_error"]

\* __main__, lines 185-197: the argument and configuration checks.
StartIngest(p) ==
    /\ pc[p] = "idle"
    /\ runs < MaxRuns
    /\ runs' = runs + 1
    /\ now' = now + 1
    /\ conn' = [conn EXCEPT ![p] = "none"]
    /\ tx' = [tx EXCEPT ![p] = "idle"]
    /\ counts' = [counts EXCEPT ![p] = ZeroCounts]
    /\ summary' = [summary EXCEPT ![p] = None]
    /\ base' = [base EXCEPT ![p] = table]
    /\ \E isdir \in BOOLEAN, configured \in BOOLEAN :
          IF isdir /\ configured
          THEN /\ pc' = [pc EXCEPT ![p] = "connect"]
               /\ exitcode' = [exitcode EXCEPT ![p] = 0]
               /\ log' = [log EXCEPT ![p] = {}]
          ELSE /\ pc' = pc
               /\ exitcode' = [exitcode EXCEPT ![p] = 1]
               /\ log' = [log EXCEPT ![p] =
                            {<<IF ~isdir THEN "not_a_directory" ELSE "config_missing",
                               Root>>}]
    /\ UNCHANGED <<disk, schema, table, pend, todo, cur, edits, prev>>
    /\ UNCHANGED searchVars

\* __main__, line 200: if db_conn
AfterConnect(connected) == IF connected THEN "setup" ELSE "finally"

\* Variant: the value returned by setup_database is not tested.
AfterSetupUntested(created) == "walk"

\* __main__, lines 201-204: if setup_database(db_conn) ... else "Aborting."
AfterSetup(created) == IF created THEN "walk" ELSE "finally"

\* get_db_connection, and the test of its result at line 200.
GetDbConnection(p) ==
    /\ pc[p] = "connect"
    /\ \E connected \in BOOLEAN :
          /\ conn' = [conn EXCEPT ![p] = IF connected THEN "open" ELSE "none"]
          /\ log' = [log EXCEPT ![p] = @ \cup
                       {<<IF connected THEN "connected" ELSE "connect_failed", None>>}]
          /\ pc' = [pc EXCEPT ![p] = AfterConnect(connected)]
    /\ UNCHANGED <<disk, now, schema, table, pend, tx, todo, cur, counts,
                   base, summary, exitcode, runs, edits, prev>>
    /\ UNCHANGED searchVars

\* setup_database, and on success the first lines of process_directory.
SetupDatabase(p) ==
    /\ pc[p] = "setup"
    /\ conn[p] = "open"
    /\ \E created \in BOOLEAN :
          /\ schema' = (schema \/ created)
          /\ log' = [log EXCEPT ![p] = @ \cup
                       {<<IF created THEN "table_ready" ELSE "setup_failed", None>>}]
          /\ pc' = [pc EXCEPT ![p] = AfterSetup(created)]
          /\ IF AfterSetup(created) = "walk"
             THEN /\ todo' = [todo EXCEPT ![p] = DOMAIN disk]
                  /\ counts' = [counts EXCEPT ![p] = ZeroCounts]
             ELSE UNCHANGED <<todo, counts>>
    /\ tx' = [tx EXCEPT ![p] = "idle"]
    /\ UNCHANGED <<disk, now, table, pend, conn, cur, base, summary,
                   exitcode, runs, edits, prev>>
    /\ UNCHANGED searchVars

\* One iteration of the loop of process_directory up to and including
\* cur.execute: the extension test, the extraction, the INSERT statement.
FileStep(p, filename) ==
    /\ pc[p] = "walk"
    /\ filename \in todo[p]
    /\ todo' = [todo EXCEPT ![p] = @ \ {filename}]
    /\ LET file_path == join(Root, filename)
           file_ext  == lower(splitext(filename))
           content   == Extract(file_ext, disk[filename])
       IN  IF ~IsSupported(file_ext)
           THEN /\ counts' = [counts EXCEPT ![p] = Bump(@, "skipped")]
                /\ UNCHANGED <<pc, tx, pend, cur, log>>
           ELSE IF ~IsNotNone(content)
           THEN /\ counts' = [counts EXCEPT ![p] = Bump(@, "error")]
                /\ log' = [log EXCEPT ![p] = @ \cup {<<"extract_failed", file_path>>}]
                /\ UNCHANGED <<pc, tx, pend, cur>>
           ELSE \E fails \in BOOLEAN :
                  IF fails \/ tx[p] = "aborted" \/ ~schema
                  THEN \* execute raised: log, conn.rollback(), return False
                       /\ log' = [log EXCEPT ![p] = @ \cup {<<"insert_error", file_path>>}]
                       /\ LET rb == rollback([tx |-> "aborted", pend |-> pend[p]])
                          IN  /\ tx' = [tx EXCEPT ![p] = rb.tx]
                              /\ pend' = [pend EXCEPT ![p] = rb.pend]
                       /\ counts' = [counts EXCEPT ![p] =
                                        CountInsert(@, InsertReturn(TRUE, 0))]
                       /\ UNCHANGED <<pc, cur>>
                  ELSE /\ ~WaitsOn(p, file_path)
                       /\ LET res == InsertOnConflictDoNothing(
                                         table, Row(file_path, file_ext, content[1], now))
                          IN  /\ pend' = [pend EXCEPT ![p] = res.pend]
                              /\ cur' = [cur EXCEPT ![p] =
                                            Some([file_path |-> file_path,
                                                  rowcount |-> res.rowcount])]
                       /\ tx' = [tx EXCEPT ![p] = "intrans"]
                       /\ pc' = [pc EXCEPT ![p] = "commit"]
                       /\ UNCHANGED <<counts, log>>
    /\ UNCHANGED <<disk, now, schema, table, conn, base, summary, exitcode,
                   runs, edits, prev>>
    /\ UNCHANGED searchVars

\* The rest of insert_file_data: conn.commit(), the rowcount test, and the
\* counter process_directory increments for the value returned.
CommitStep(p) ==
    /\ pc[p] = "commit"
    /\ \E fails \in BOOLEAN :
          IF fails
          THEN \* commit raised: log, conn.rollback(), return False
               /\ table' = table
               /\ log' = [log EXCEPT ![p] = @ \cup {<<"insert_error", cur[p][1].file_path>>}]
               /\ counts' = [counts EXCEPT ![p] = CountInsert(@, InsertReturn(TRUE, 0))]
               /\ LET rb == rollback([tx |-> "aborted", pend |-> pend[p]])
                  IN  /\ tx' = [tx EXCEPT ![p] = rb.tx]
                      /\ pend' = [pend EXCEPT ![p] = rb.pend]
          ELSE /\ table' = Committed(table, pend[p])
               /\ pend' = [pend EXCEPT ![p] = None]
               /\ tx' = [tx EXCEPT ![p] = "idle"]
               /\ log' = [log EXCEPT ![p] = @ \cup
                            {<<IF cur[p][1].rowcount > 0 THEN "inserted" ELSE "duplicate",
                               cur[p][1].file_path>>}]
               /\ counts' = [counts EXCEPT ![p] =
                                CountInsert(@, InsertReturn(FALSE, cur[p][1].rowcount))]
    /\ cur' = [cur EXCEPT ![p] = None]
    /\ pc' = [pc EXCEPT ![p] = "walk"]
    /\ UNCHANGED <<disk, now, schema, conn, todo, base, summary, exitcode,
                   runs, edits, prev>>
    /\ UNCHANGED searchVars

\* process_directory, lines 177-182: the walk is over, the summary is logged.
Summary(p) ==
    /\ pc[p] = "walk"
    /\ todo[p] = {}
    /\ summary' = [summary EXCEPT ![p] = Some(counts[p])]
    /\ pc' = [pc EXCEPT ![p] = "finally"]
    /\ UNCHANGED <<disk, now, schema, table, pend, conn, tx, todo, cur, counts,
                   log, base, exitcode, runs, edits, prev>>
    /\ UNCHANGED searchVars

\* __main__, lines 207-210: the finally block, and the end of the process.
Finally(p) ==
    /\ pc[p] = "finally"
    /\ conn' = [conn EXCEPT ![p] = IF @ = "open" THEN "closed" ELSE @]
    /\ pend' = [pend EXCEPT ![p] = None]
    /\ tx' = [tx EXCEPT ![p] = "idle"]
    /\ cur' = [cur EXCEPT ![p] = None]
    /\ todo' = [todo EXCEPT ![p] = {}]
    /\ pc' = [pc EXCEPT ![p] = "idle"]
    /\ prev' = Some(Ended(p))
    /\ UNCHANGED <<disk, now, schema, table, counts, log, base, summary,
                   exitcode, runs, edits>>
    /\ UNCHANGED searchVars

\* KeyboardInterrupt: not an Exception, so no handler but the finally runs.
Interrupt(p) ==
    /\ pc[p] \in {"connect", "setup", "walk", "commit"}
    /\ pc' = [pc EXCEPT ![p] = "finally"]
    /\ exitcode' = [exitcode EXCEPT ![p] = 1]
    /\ UNCHANGED <<disk, now, schema, table, pend, conn, tx, todo, cur, counts,
                   log, base, summary, runs, edits, prev>>
    /\ UNCHANGED searchVars

\* Someone edits a file of the directory while no ingestion is running.
ModifyFile(filename) ==
    /\ edits < MaxEdits
    /\ \A p \in Procs : pc[p] = "idle"
    /\ filename \in DOMAIN disk
    /\ \E st \in EditStates(filename) :
          /\ st # disk[filename]
          /\ disk' = [disk EXCEPT ![filename] = st]
    /\ edits' = edits + 1
    /\ UNCHANGED <<now, schema, table, pend, pc, conn, tx, todo, cur, counts,
                   log, base, summary, exitcode, runs, prev>>
    /\ UNCHANGED searchVars

Ingest(p) ==
    \/ StartIngest(p)
    \/ GetDbConnection(p)
    \/ SetupDatabase(p)
    \/ \E filename \in FileNames : FileStep(p, filename)
    \/ CommitStep(p)
    \/ Summary(p)
    \/ Finally(p)
    \/ Interrupt(p)

Next ==
    \/ Ingest("p1")
    \/ \E filename \in FileNames : ModifyFile(filename)

Spec == Init /\ [][Next]_vars

-----------------------------------------------------------------------------
(* Two ingestion processes on the same directory *)

RaceDisk == [f \in {F_A, F_C} |-> InitialDisk[f]]

InitRace ==
    /\ disk = RaceDisk
    /\ now = 0
    /\ schema = FALSE
    /\ table = EmptyBag
    /\ pend = [p \in Procs |-> None]
    /\ pc = [p \in Procs |-> "idle"]
    /\ conn = [p \in Procs |-> "none"]
    /\ tx = [p \in Procs |-> "idle"]
    /\ todo = [p \in Procs |-> {}]
    /\ cur = [p \in Procs |-> None]
    /\ counts = [p \in Procs |-> ZeroCounts]
    /\ log = [p \in Procs |-> {}]
    /\ base = [p \in Procs |-> EmptyBag]
    /\ summary = [p \in Procs |-> None]
    /\ exitcode = [p \in Procs |-> 0]
    /\ runs = 0
    /\ edits = 0
    /\ prev = None
    /\ fts = FALSE
    /\ spc = "idle"
    /\ sconn = "none"
    /\ stx = "idle"
    /\ sargs = None
    /\ last = None
    /\ sout = "nothing"
    /\ asked = 0

NextRace == \E p \in Procs : Ingest(p)

SpecRace == InitRace /\ [][NextRace]_vars

-----------------------------------------------------------------------------
(* search_pkm.py *)

MaxQueries == 2

DEFAULT_SEARCH_LIMIT == 10

valid_languages == {"english", "russian", "both", "simple"}

\* What a caller may pass: query strings as word sequences ("" is <<>>),
\* language selectors, limits.
Queries == {<<>>, <<"hello">>, <<"absent">>}
Languages == valid_languages \cup {"klingon"}
Limits == {-1, 1, DEFAULT_SEARCH_LIMIT}

\* query @@ tsvector: plainto_tsquery ANDs the words of the query.
Matches(content, query_string) ==
    \A i \in 1..Len(query_string) :
        \E j \in 1..Len(content) : content[j] = query_string[i]

\* ts_rank_cd, as the number of positions of the content the query hits.
Rank(content, query_string) ==
    Cardinality({j \in 1..Len(content) :
                    \E i \in 1..Len(query_string) : content[j] = query_string[i]})

\* ts_headline with StartSel=***, StopSel=***: the hits wrapped in markers.
Headline(content, query_string) ==
    Flatten([j \in 1..Len(content) |->
                IF \E i \in 1..Len(query_string) : content[j] = query_string[i]
                THEN <<"***", content[j], "***">>
                ELSE <<content[j]>>])

RECURSIVE TopRows(_, _)
\* ORDER BY rank DESC LIMIT n
TopRows(rows, n) ==
    IF rows = {} \/ n = 0 THEN <<>>
    ELSE LET r == CHOOSE x \in rows : \A y \in rows : y.rank <= x.rank
         IN  <<r>> \o TopRows(rows \ {r}, n - 1)

\* The SELECT of search_documents; in mode 'both' a row matches when either
\* configuration matches and the two ranks are added.
Select(tbl, query_string, language, limit) ==
    LET hits == {r \in BagToSet(tbl) :
                    /\ Matches(r.content, query_string)
                    /\ r.file_extension \in SUPPORTED_EXTENSIONS}
        rank(r) == IF language = "both"
                   THEN Rank(r.content, query_string) + Rank(r.content, query_string)
                   ELSE Rank(r.content, query_string)
    IN  TopRows({[file_path |-> r.file_path, rank |-> rank(r),
                  headline |-> Some(Headline(r.content, query_string))] : r \in hits},
                limit)

\* Variant: no validation of the arguments before the cursor is opened.
search_documents_unvalidated(txs, tbl, ready, query_string, language, limit, fails) ==
    IF language \notin valid_languages
    THEN [result |-> None, tx |-> txs, cursor |-> TRUE, executed |-> 0, raised |-> FALSE]
    ELSE IF txs = "aborted" \/ fails \/ ~ready \/ limit < 0
    THEN [result |-> None, tx |-> "aborted", cursor |-> TRUE, executed |-> 1, raised |-> TRUE]
    ELSE [result |-> Some(Select(tbl, query_string, language, limit)),
          tx |-> "intrans", cursor |-> TRUE, executed |-> 1, raised |-> FALSE]

\* Variant: the except branches return the empty list.
search_documents_empty_on_error(txs, tbl, ready, query_string, language, limit, fails) ==
    IF query_string = <<>>
    THEN [result |-> Some(<<>>), tx |-> txs, cursor |-> FALSE, executed |-> 0, raised |-> FALSE]
    ELSE IF language \notin valid_languages
    THEN [result |-> None, tx |-> txs, cursor |-> FALSE, executed |-> 0, raised |-> FALSE]
    ELSE IF txs = "aborted" \/ fails \/ ~ready \/ limit < 0
    THEN [result |-> Some(<<>>), tx |-> "aborted", cursor |-> TRUE, executed |-> 1, raised |-> TRUE]
    ELSE [result |-> Some(Select(tbl, query_string, language, limit)),
          tx |-> "intrans", cursor |-> TRUE, executed |-> 1, raised |-> FALSE]

\* search_documents on a connection whose transaction status is txs.  The
\* statement raises when the transaction is already aborted, when the
\* tsvector columns of the setup script are missing (~ready), when the limit
\* is negative, or when the server fails (fails); nothing rolls back.
search_documents(txs, tbl, ready, query_string, language, limit, fails) ==
    IF query_string = <<>>
    THEN [result |-> Some(<<>>), tx |-> txs, cursor |-> FALSE, executed |-> 0, raised |-> FALSE]
    ELSE IF language \notin valid_languages
    THEN [result |-> None, tx |-> txs, cursor |-> FALSE, executed |-> 0, raised |-> FALSE]
    ELSE IF txs = "aborted" \/ fails \/ ~ready \/ limit < 0
    THEN [result |-> None, tx |-> "aborted", cursor |-> TRUE, executed |-> 1, raised |-> TRUE]
    ELSE [result |-> Some(Select(tbl, query_string, language, limit)),
          tx |-> "intrans", cursor |-> TRUE, executed |-> 1, raised |-> FALSE]

\* The record kept of a call; server_failed tells whether the server failed
\* on this very statement.
Call(txs, query_string, language, limit, fails, r) ==
    [query_string |-> query_string, language |-> language, limit |-> limit,
     tx_before |-> txs, server_failed |-> fails,
     result |-> r.result, cursor |-> r.cursor,
     executed |-> r.executed, raised |-> r.raised]

\* __main__, lines 254-266 and 291-303: what is printed for a result.
Printed(result) ==
    IF result = None THEN "error"
    ELSE IF result[1] = <<>> THEN "no_results"
    ELSE IF \E i \in 1..Len(result[1]) : result[1][i].headline = None
    THEN "traceback"
    ELSE "results"

\* __main__, lines 250 and 268: what follows the optional setup.
Branch(args) ==
    IF args.query # None /\ args.query[1] # <<>> THEN "oneshot"
    ELSE IF ~args.setup THEN "prompt"
    ELSE "close"

\* The table a complete ingestion of the initial directory leaves.
Corpus ==
    SetToBag({Row(join(Root, f), lower(splitext(f)),
                  Extract(lower(splitext(f)), InitialDisk[f])[1], 1) :
              f \in {g \in DOMAIN InitialDisk :
                        /\ IsSupported(lower(splitext(g)))
                        /\ IsNotNone(Extract(lower(splitext(g)), InitialDisk[g]))}})

InitSearch ==
    /\ disk = InitialDisk
    /\ now = 1
    /\ schema = TRUE
    /\ table \in {EmptyBag, Corpus}
    /\ pend = [p \in Procs |-> None]
    /\ pc = [p \in Procs |-> "idle"]
    /\ conn = [p \in Procs |-> "none"]
    /\ tx = [p \in Procs |-> "idle"]
    /\ todo = [p \in Procs |-> {}]
    /\ cur = [p \in Procs |-> None]
    /\ counts = [p \in Procs |-> ZeroCounts]
    /\ log = [p \in Procs |-> {}]
    /\ base = [p \in Procs |-> EmptyBag]
    /\ summary = [p \in Procs |-> None]
    /\ exitcode = [p \in Procs |-> 0]
    /\ runs = 1
    /\ edits = 0
    /\ prev = None
    /\ fts \in BOOLEAN
    /\ spc = "idle"
    /\ sconn = "none"
    /\ stx = "idle"
    /\ sargs = None
    /\ last = None
    /\ sout = "nothing"
    /\ asked = 0

\* __main__, lines 226-232: argparse; --lang is restricted to the choices.
SearchStart ==
    /\ spc = "idle"
    /\ sargs = None
    /\ \E setup \in BOOLEAN, query \in {None} \cup {Some(q) : q \in Queries},
          lang \in valid_languages, limit \in Limits :
          sargs' = Some([setup |-> setup, query |-> query, lang |-> lang, limit |-> limit])
    /\ spc' = "connect"
    /\ UNCHANGED <<fts, sconn, stx, last, sout, asked>>
    /\ UNCHANGED ingestVars

\* get_db_connection and the test at line 236.
SearchGetDbConnection ==
    /\ spc = "connect"
    /\ \E outcome \in {"unconfigured", "refused", "set_failed", "connected"} :
          /\ sconn' = CASE outcome = "connected"  -> "open"
                        [] outcome = "set_failed" -> "dropped"
                        [] OTHER                  -> "none"
          /\ spc' = IF outcome # "connected" THEN "done"
                    ELSE IF sargs[1].setup THEN "setup"
                    ELSE Branch(sargs[1])
    /\ stx' = "idle"
    /\ UNCHANGED <<fts, sargs, last, sout, asked>>
    /\ UNCHANGED ingestVars

\* execute_sql_setup and lines 240-248.
ExecuteSqlSetup ==
    /\ spc = "setup"
    /\ \E outcome \in {"no_file", "script_error", "done"} :
          IF outcome = "done"
          THEN /\ fts' = TRUE
               /\ spc' = Branch(sargs[1])
               /\ sconn' = sconn
          ELSE /\ fts' = fts
               /\ spc' = "done"
               /\ sconn' = "closed"
    /\ stx' = "idle"
    /\ UNCHANGED <<sargs, last, sout, asked>>
    /\ UNCHANGED ingestVars

\* __main__, lines 250-266: the one-shot search and its output.
OneShotSearch ==
    /\ spc = "oneshot"
    /\ \E fails \in BOOLEAN :
          LET r == search_documents(stx, table, fts, sargs[1].query[1],
                                    sargs[1].lang, sargs[1].limit, fails)
          IN  /\ last' = Some(Call(stx, sargs[1].query[1], sargs[1].lang,
                                   sargs[1].limit, fails, r))
              /\ stx' = r.tx
              /\ sout' = Printed(r.result)
              /\ spc' = IF Printed(r.result) = "traceback" THEN "done" ELSE "close"
    /\ UNCHANGED <<fts, sconn, sargs, asked>>
    /\ UNCHANGED ingestVars

\* KeyboardInterrupt outside the interactive loop: no handler, no finally.
SearchInterrupt ==
    /\ spc \in {"setup", "oneshot"}
    /\ spc' = "done"
    /\ sout' = "traceback"
    /\ UNCHANGED <<fts, sconn, stx, sargs, last, asked>>
    /\ UNCHANGED ingestVars

\* One iteration of the interactive loop, lines 273-303.  lang_choice_input
\* is the answer to the language prompt after .lower().strip().
InteractiveQuery ==
    /\ spc = "prompt"
    /\ asked < MaxQueries
    /\ asked' = asked + 1
    /\ \E search_term \in Queries, lang_choice_input \in Languages \cup {""},
          fails \in BOOLEAN :
          IF search_term = <<>>
          THEN UNCHANGED <<last, stx, sout, spc>>
          ELSE LET lang_choice == IF lang_choice_input = "" THEN "english"
                                  ELSE IF lang_choice_input \in valid_languages
                                  THEN lang_choice_input
                                  ELSE "english"
                   r == search_documents(stx, table, fts, search_term, lang_choice,
                                         sargs[1].limit, fails)
               IN  /\ last' = Some(Call(stx, search_term, lang_choice, sargs[1].limit, fails, r))
                   /\ stx' = r.tx
                   /\ sout' = Printed(r.result)
                   /\ spc' = IF Printed(r.result) = "traceback" THEN "done" ELSE "prompt"
    /\ UNCHANGED <<fts, sconn, sargs>>
    /\ UNCHANGED ingestVars

\* EOFError or KeyboardInterrupt at a prompt: break, then the finally.
InteractiveExit ==
    /\ spc = "prompt"
    /\ spc' = "close"
    /\ UNCHANGED <<fts, sconn, stx, sargs, last, sout, asked>>
    /\ UNCHANGED ingestVars

\* __main__, lines 314-319.
SearchClose ==
    /\ spc = "close"
    /\ sconn' = IF sconn = "open" THEN "closed" ELSE sconn
    /\ spc' = "done"
    /\ UNCHANGED <<fts, stx, sargs, last, sout, asked>>
    /\ UNCHANGED ingestVars

NextSearch ==
    \/ SearchStart
    \/ SearchGetDbConnection
    \/ ExecuteSqlSetup
    \/ OneShotSearch
    \/ SearchInterrupt
    \/ InteractiveQuery
    \/ InteractiveExit
    \/ SearchClose

SpecSearch == InitSearch /\ [][NextSearch]_vars

\* A program that imports search_pkm and calls search_documents on an open
\* connection with arguments of its own.
InitCall ==
    /\ disk = InitialDisk
    /\ now = 1
    /\ schema = TRUE
    /\ table \in {EmptyBag, Corpus}
    /\ pend = [p \in Procs |-> None]
    /\ pc = [p \in Procs |-> "idle"]
    /\ conn = [p \in Procs |-> "none"]
    /\ tx = [p \in Procs |-> "idle"]
    /\ todo = [p \in Procs |-> {}]
    /\ cur = [p \in Procs |-> None]
    /\ counts = [p \in Procs |-> ZeroCounts]
    /\ log = [p \in Procs |-> {}]
    /\ base = [p \in Procs |-> EmptyBag]
    /\ summary = [p \in Procs |-> None]
    /\ exitcode = [p \in Procs |-> 0]
    /\ runs = 1
    /\ edits = 0
    /\ prev = None
    /\ fts \in BOOLEAN
    /\ spc = "imported"
    /\ sconn = "open"
    /\ stx = "idle"
    /\ sargs = None
    /\ last = None
    /\ sout = "nothing"
    /\ asked = 0

CallSearchDocuments ==
    /\ spc = "imported"
    /\ sconn = "open"
    /\ asked < MaxQueries
    /\ asked' = asked + 1
    /\ \E query_string \in Queries, language \in Languages, limit \in Limits,
          fails \in BOOLEAN :
          LET r == search_documents(stx, table, fts, query_string, language, limit, fails)
          IN  /\ last' = Some(Call(stx, query_string, language, limit, fails, r))
              /\ stx' = r.tx
    /\ UNCHANGED <<fts, spc, sconn, sargs, sout>>
    /\ UNCHANGED ingestVars

NextCall == CallSearchDocuments

SpecCall == InitCall /\ [][NextCall]_vars

-----------------------------------------------------------------------------
(* Properties of the ingestion *)

PathOf(filename) == join(Root, filename)

Logged(p, kind, filename) == <<kind, PathOf(filename)>> \in log[p]

\* The files of the directory process_directory must store.
Extractable(d) ==
    {f \in DOMAIN d : /\ lower(splitext(f)) \in {EXT_TXT, EXT_PDF, EXT_MD}
                      /\ Extract(lower(splitext(f)), d[f]) # None}

RowsAt(tbl, file_path) == {r \in BagToSet(tbl) : r.file_path = file_path}

\* C1: at most one record per file_path, committed or not, in every state
\* reached by two interleaved ingestion processes; of two racing inserts of
\* one path at most one creates the record.
C1_UniquePath ==
    /\ \A r \in BagToSet(table) :
          /\ CopiesIn(r, table) = 1
          /\ RowsAt(table, r.file_path) = {r}
    /\ \A p \in Procs : pend[p] # None =>
          /\ ~HasPath(table, pend[p][1].file_path)
          /\ \A q \in Procs \ {p} :
                pend[q] # None => pend[q][1].file_path # pend[p][1].file_path
    /\ \A p \in Procs, q \in Procs, f \in FileNames :
          p # q => ~(Logged(p, "inserted", f) /\ Logged(q, "inserted", f))

\* Two processes raced for a.txt: q started before the row was committed,
\* p created it and q was told it was a duplicate.
C1_Witness ==
    \E p \in Procs, q \in Procs :
        /\ p # q
        /\ Logged(p, "inserted", F_A)
        /\ Logged(q, "duplicate", F_A)
        /\ ~HasPath(base[q], PathOf(F_A))
        /\ ~HasPath(base[p], PathOf(F_A))
        /\ Cardinality(RowsAt(table, PathOf(F_A))) = 1

\* A second complete run has just logged its summary, the run before it was
\* complete too, and the directory is what that run saw.
SecondRunDone(p) ==
    /\ pc[p] = "finally"
    /\ summary[p] # None
    /\ prev # None
    /\ prev[1].summary # None
    /\ prev[1].disk = disk
    /\ prev[1].after = base[p]

C3_UnsupportedNeverStored ==
    \A p \in Procs :
        LET unsupported == {f \in DOMAIN disk :
                              lower(splitext(f)) \notin {EXT_TXT, EXT_PDF, EXT_MD}}
        IN  /\ \A r \in BagToSet(table) : r.file_extension \in {EXT_TXT, EXT_PDF, EXT_MD}
            /\ pend[p] # None => pend[p][1].file_extension \in {EXT_TXT, EXT_PDF, EXT_MD}
            /\ \A f \in unsupported :
                  /\ ~HasPath(table, PathOf(f))
                  /\ pend[p] # None => pend[p][1].file_path # PathOf(f)
                  /\ \A e \in log[p] : e[2] # PathOf(f)
            /\ pc[p] \in {"walk", "commit"} =>
                  counts[p].skipped = Cardinality(unsupported \ todo[p])
            /\ summary[p] # None =>
                  summary[p][1].skipped = Cardinality(unsupported)

\* d.txt.bak has been walked past and skipped, while b.PDF was taken as a PDF.
C3_Witness ==
    /\ summary["p1"] # None
    /\ summary["p1"][1].skipped = 1
    /\ lower(splitext(F_D)) = <<".","b","a","k">>
    /\ ~HasPath(table, PathOf(F_D))
    /\ \E r \in BagToSet(table) : r.file_path = PathOf(F_B) /\ r.file_extension = EXT_PDF

\* The per-file messages a step adds to the log of p's run.
NewEvents(p) == log'[p] \ log[p]

\* C5: a step in which a file fails (its extraction, its INSERT or its
\* commit) creates no record, leaves the transaction rolled back and the
\* connection open, and leaves the process in the loop over the remaining
\* files; and when the summary is logged every extractable file is stored
\* unless its own insert failed.
C5_FailureIsLocal ==
    [][\A p \in Procs :
          /\ (\E e \in NewEvents(p) : e[1] \in {"extract_failed", "insert_error"}) =>
                /\ table' = table
                /\ tx'[p] = "idle"
                /\ pend'[p] = None
                /\ conn'[p] = "open"
                /\ pc'[p] = "walk"
                /\ todo'[p] \subseteq todo[p]
          /\ (summary[p] = None /\ summary'[p] # None) =>
                /\ todo'[p] = {}
                /\ \A f \in Extractable(disk') :
                      \/ HasPath(table', PathOf(f))
                      \/ <<"insert_error", PathOf(f)>> \in log'[p]
                /\ summary'[p][1].processed + summary'[p][1].skipped
                     + summary'[p][1].error + summary'[p][1].duplicate
                     = Cardinality(DOMAIN disk')
    ]_vars

\* A run reached its summary although the insert of a.txt raised and b.PDF
\* could not be extracted; c.md was inserted all the same.
C5_Witness ==
    /\ summary["p1"] # None
    /\ Logged("p1", "insert_error", F_A)
    /\ Logged("p1", "extract_failed", F_B)
    /\ Logged("p1", "inserted", F_C)
    /\ HasPath(table, PathOf(F_C))
    /\ ~HasPath(table, PathOf(F_A))
    /\ conn["p1"] = "open"

\* C6: the duplicate counter goes up only for a file whose path was already
\* stored when its insert ran, and a file whose insert fails with a database
\* error goes to the errored counter, not to the duplicate counter.
C6_CountersClassify ==
    [][\A p \in Procs :
          /\ counts'[p].duplicate = counts[p].duplicate + 1 =>
                \E e \in NewEvents(p) : e[1] = "duplicate" /\ HasPath(table, e[2])
          /\ \A e \in NewEvents(p) : e[1] = "insert_error" =>
                /\ counts'[p].error = counts[p].error + 1
                /\ counts'[p].duplicate = counts[p].duplicate
    ]_vars

\* C9: a complete run that found the table empty and met no database error
\* stored exactly the supported files whose extraction returned text, with
\* the lowercased extension and the extracted text; the errored counter is
\* the number of supported files whose extraction failed, the duplicate
\* counter is 0 and the four counters add up to the number of files.
C9_FirstRunOutcome ==
    \A p \in {"p1"} :
        (/\ pc[p] = "finally"
         /\ summary[p] # None
         /\ base[p] = EmptyBag
         /\ \A e \in log[p] : e[1] # "insert_error")
        =>
        LET supported == {f \in DOMAIN disk :
                            lower(splitext(f)) \in {EXT_TXT, EXT_PDF, EXT_MD}}
            c == summary[p][1]
        IN  /\ table = SetToBag({Row(PathOf(f), lower(splitext(f)),
                                     Extract(lower(splitext(f)), disk[f])[1], now) :
                                 f \in Extractable(disk)})
            /\ c.processed = Cardinality(Extractable(disk))
            /\ c.error = Cardinality(supported \ Extractable(disk))
            /\ c.skipped = Cardinality(DOMAIN disk \ supported)
            /\ c.duplicate = 0
            /\ c.processed + c.duplicate + c.error + c.skipped = Cardinality(DOMAIN disk)

\* b.PDF opens with the empty password and holds no text: it is stored with
\* empty content, next to a.txt and c.md.
C9_Witness ==
    /\ pc["p1"] = "finally"
    /\ summary["p1"] # None
    /\ base["p1"] = EmptyBag
    /\ \A e \in log["p1"] : e[1] # "insert_error"
    /\ \E r \in BagToSet(table) :
          r.file_path = PathOf(F_B) /\ r.content = <<>> /\ r.file_extension = EXT_PDF
    /\ \E r \in BagToSet(table) :
          r.file_path = PathOf(F_A) /\ r.content = <<"hello", "world">>
    /\ summary["p1"][1] = [processed |-> 3, skipped |-> 1, error |-> 0, duplicate |-> 0]

\* C10: no step modifies or removes a stored record: every row of the table
\* is still there in the next state, and it is still the only row with its
\* path.
C10_RecordsFrozen ==
    [][\A r \in BagToSet(table) :
          /\ CopiesIn(r, table') >= 1
          /\ RowsAt(table', r.file_path) = {r}
    ]_vars

\* a.txt was stored, then changed on disk, then ingested again: the row
\* still holds the first text and the first timestamp.
C10_Witness ==
    /\ disk[F_A] = File("utf8", << <<"changed">> >>)
    /\ Logged("p1", "duplicate", F_A)
    /\ now = 2
    /\ RowsAt(table, PathOf(F_A)) =
          {Row(PathOf(F_A), EXT_TXT, <<"hello", "world">>, 1)}

-----------------------------------------------------------------------------
(* Properties of the search *)

\* C4: a call of search_documents with an empty query string, or with a
\* language selector outside english, russian, both, simple, opens no
\* cursor and executes no statement, and leaves the transaction status of
\* the connection, the connection and the table as they were.
C4_InvalidInputNoStatement ==
    [][(asked' = asked + 1 /\ spc = "imported"
        /\ (\/ last'[1].query_string = <<>>
            \/ last'[1].language \notin {"english", "russian", "both", "simple"}))
       =>
       /\ last'[1].executed = 0
       /\ ~last'[1].cursor
       /\ ~last'[1].raised
       /\ last'[1].tx_before = stx
       /\ stx' = stx
       /\ sconn' = sconn
       /\ table' = table
       /\ fts' = fts
       /\ last'[1].result = IF last'[1].query_string = <<>> THEN Some(<<>>) ELSE None
    ]_vars

\* After a search that opened a transaction, a call with the empty string
\* on a populated, searchable table came back with the empty list.
C4_Witness ==
    /\ spc = "imported"
    /\ last # None
    /\ last[1].query_string = <<>>
    /\ last[1].language = "simple"
    /\ last[1].tx_before = "intrans"
    /\ last[1].executed = 0
    /\ stx = "intrans"
    /\ fts
    /\ table = Corpus

\* C7: when either script has ended, the connection it acquired is closed.
C7_ConnectionsClosed ==
    /\ \A p \in Procs : pc[p] = "idle" => conn[p] # "open"
    /\ spc = "done" => sconn # "open"

\* C8: for a non-empty query and an allowed language, search_documents
\* returns None exactly when the statement raised, and the empty list when
\* it ran and no stored content matches; the script then prints the
\* "no results" message for the empty list and the "error occurred" message
\* for None, and goes on to close the connection.
C8_NoMatchIsNotFailure ==
    (/\ last # None
     /\ spc # "imported"
     /\ last[1].query_string # <<>>
     /\ last[1].language \in {"english", "russian", "both", "simple"})
    =>
    /\ (last[1].result = None) <=> last[1].raised
    /\ (/\ ~last[1].raised
        /\ \A r \in BagToSet(table) :
              \E i \in 1..Len(last[1].query_string) :
                 \A j \in 1..Len(r.content) : r.content[j] # last[1].query_string[i])
         => last[1].result = Some(<<>>)
    /\ last[1].result = Some(<<>>) => sout = "no_results"
    /\ last[1].result = None => sout = "error"
    /\ sout \in {"no_results", "error"} =>
          /\ spc \in {"close", "prompt", "done"}
          /\ spc = "done" => sconn = "closed"

\* A one-shot search for a word no document holds, on a searchable corpus:
\* empty list, "no results", connection closed.
C8_Witness ==
    /\ table = Corpus
    /\ fts
    /\ last # None
    /\ last[1].query_string = <<"absent">>
    /\ ~last[1].raised
    /\ last[1].result = Some(<<>>)
    /\ sout = "no_results"
    /\ spc = "done"
    /\ sconn = "closed"

\* C11: in the interactive loop a search that fails is reported and the
\* loop prompts again; and a query that the server does not fail on, on a
\* searchable table, with an allowed limit and with stored content that
\* matches, returns its rows and has them printed, whatever happened to the
\* queries before it.
C11_SearchFailureIsLocal ==
    [][(spc = "prompt" /\ last' # last)
       =>
       /\ spc' = "prompt"
       /\ last'[1].raised => sout' = "error"
       /\ (/\ ~last'[1].server_failed
           /\ fts
           /\ last'[1].limit >= 0
           /\ \E r \in BagToSet(table) :
                 \A i \in 1..Len(last'[1].query_string) :
                    \E j \in 1..Len(r.content) :
                       r.content[j] = last'[1].query_string[i])
          => /\ last'[1].result # None
             /\ last'[1].result # Some(<<>>)
             /\ sout' = "results"
    ]_vars

\* What a step of p does to files and records: a file leaves the walk, a
\* counter goes up, a per-file message is logged, a row is written.
FileWork(p) ==
    \/ (todo'[p] # todo[p] /\ todo'[p] \subseteq todo[p] /\ todo'[p] # {})
    \/ \E k \in {"processed", "skipped", "error", "duplicate"} :
          counts'[p][k] > counts[p][k]
    \/ \E e \in NewEvents(p) :
          e[1] \in {"extract_failed", "insert_error", "inserted", "duplicate"}
    \/ (pend'[p] # pend[p] /\ pend'[p] # None)
    \/ (pend[p] # None /\ table' # table)

\* C12: a step of parse.py extracts or inserts only after, in the same
\* invocation, the directory and configuration checks passed, the connection
\* was acquired and setup_database succeeded; an invocation whose checks,
\* connection or schema setup failed logs no summary and no per-file
\* message, counts nothing and leaves the table as it found it.
C12_StartupBeforeFiles ==
    [][\A p \in Procs :
          /\ FileWork(p) =>
                /\ exitcode[p] = 0
                /\ <<"connected", None>> \in log[p]
                /\ <<"table_ready", None>> \in log[p]
                /\ conn[p] = "open"
                /\ schema
                /\ \A e \in log[p] :
                      e[1] \notin {"not_a_directory", "config_missing",
                                   "connect_failed", "setup_failed"}
          /\ (\E e \in log[p] :
                 e[1] \in {"not_a_directory", "config_missing",
                           "connect_failed", "setup_failed"}) =>
                /\ table' = table
                /\ table = base[p]
                /\ pend[p] = None /\ pend'[p] = None
                /\ summary[p] = None /\ summary'[p] = None
                /\ counts[p] = ZeroCounts
                /\ pc[p] \in {"idle", "finally"}
                /\ \A e \in log[p] :
                      e[1] \notin {"extract_failed", "insert_error", "inserted", "duplicate"}
    ]_vars

\* After a first invocation stored two files, a second one connected, failed
\* to set up the schema and is about to close: the table is as it found it.
C12_Witness ==
    /\ pc["p1"] = "finally"
    /\ <<"connected", None>> \in log["p1"]
    /\ <<"setup_failed", None>> \in log["p1"]
    /\ conn["p1"] = "open"
    /\ runs = 2
    /\ BagCardinality(table) = 2
    /\ table = base["p1"]
    /\ counts["p1"] = ZeroCounts

====
